---------------------------- MODULE Spec2Model ----------------------------
(***************************************************************************)
(* The dvc dag command     (dvc/commands/dag.py): building, filtering,       *)
(* collapsing and rendering the dependency graph of a pipeline.            *)
(*                                                                         *)
(* A node identifier (a Python str) is a sequence of one-character         *)
(* strings.  A graph (a networkx DiGraph) is a record of a node set and a  *)
(* set of ordered pairs <<u, v>>, "u depends on v".                        *)
(***************************************************************************)
EXTENDS Integers, Sequences, FiniteSets, TLC

VARIABLES
    pc,        \* position inside CmdDAG.run / the function under call
    args,      \* the parsed command line (self.args)
    repo,      \* the collaborators' data (self.repo)
    targets,   \* the list returned by _collect_targets
    graph,     \* _build's local graph: the relabelled graph
    filtered_graph, \* _build's local filtered_graph; in run, the graph rendered
    same_object, \* whether graph and filtered_graph name one graph object
    written,   \* what ui.write received, in order
    calls,     \* the steps and collaborators invoked so far, in order
    ret        \* the value returned by run, or the exception raised

vars == <<pc, args, repo, targets, graph, filtered_graph, same_object, written,
          calls, ret>>

---------------------------------------------------------------------------
(* Bounds of the model. *)

MaxNodes == 3
MaxEdges == 3
MaxTargets == 2
MaxRenders == 2

---------------------------------------------------------------------------
(* Python str operations used by the code. *)

\* s.endswith(suffix)
EndsWith(s, suffix) ==
    /\ Len(suffix) <= Len(s)
    /\ SubSeq(s, Len(s) - Len(suffix) + 1, Len(s)) = suffix

\* the positions at which token occurs in s
Occurrences(s, token) ==
    { i \in 1..(Len(s) - Len(token) + 1) : SubSeq(s, i, i + Len(token) - 1) = token }

\* token in s
Contains(s, token) == Occurrences(s, token) # {}

\* s.split(token)[0]: the part of s before the first occurrence of token
SplitFirst(s, token) ==
    IF Occurrences(s, token) = {}
    THEN s
    ELSE LET first == CHOOSE i \in Occurrences(s, token) :
                          \A j \in Occurrences(s, token) : i <= j
         IN  SubSeq(s, 1, first - 1)

\* dvc.parsing.JOIN
JOIN == <<"@">>

\* the literal ".dvc" of _is_foreach_matrix_stage
DVC_SUFFIX == <<".", "d", "v", "c">>

---------------------------------------------------------------------------
(* networkx.DiGraph operations used by the code. *)

EmptyGraph == [nodes |-> {}, edges |-> {}]

\* as remove_nodes_from, the edges of the removed nodes left behind
RemoveNodesKeepEdges(G, ns) == [nodes |-> G.nodes \ ns, edges |-> G.edges]

\* G.remove_nodes_from(ns): the nodes and every edge incident to one of them
remove_nodes_from(G, ns) ==
    [nodes |-> G.nodes \ ns,
     edges |-> { e \in G.edges : e[1] \notin ns /\ e[2] \notin ns }]

\* G.remove_edges_from(es)
remove_edges_from(G, es) == [nodes |-> G.nodes, edges |-> G.edges \ es]

\* G.add_nodes_from(ns)
add_nodes_from(G, ns) == [nodes |-> G.nodes \cup ns, edges |-> G.edges]

\* G.add_edges_from(es): endpoints that are no nodes yet are added
add_edges_from(G, es) ==
    [nodes |-> G.nodes \cup { e[1] : e \in es } \cup { e[2] : e \in es },
     edges |-> G.edges \cup es]

\* the graph itself where the reversed graph is asked for
NotReversed(G) == G

\* G.reverse()
reverse(G) == [nodes |-> G.nodes, edges |-> { <<e[2], e[1]>> : e \in G.edges }]

\* G.to_undirected(): every edge in both directions
to_undirected(G) ==
    [nodes |-> G.nodes, edges |-> G.edges \cup { <<e[2], e[1]>> : e \in G.edges }]

Successors(G, ns) == { e[2] : e \in { d \in G.edges : d[1] \in ns } }

\* breadth-first search: everything reached from frontier, seen included
RECURSIVE Bfs(_, _, _)
Bfs(G, frontier, seen) ==
    IF frontier = {}
    THEN seen
    ELSE LET next == Successors(G, frontier) \ seen
         IN  Bfs(G, next, seen \cup next)

\* nx.descendants(G, source): the nodes reachable from source, source excluded
descendants(G, source) == Bfs(G, {source}, {source}) \ {source}

\* the component of n without n itself
ComponentWithoutSelf(U, n) == Bfs(U, {n}, {n}) \ {n}

\* nx.node_connected_component(U, n) of an undirected graph U
node_connected_component(U, n) == Bfs(U, {n}, {n})

---------------------------------------------------------------------------
(* _filter (dag.py 107-127). *)

\* as FilterDescendants, the target itself not added (line 118 missing)
RECURSIVE FilterDescendantsOnly(_, _, _)
FilterDescendantsOnly(G, ts, acc) ==
    IF ts = <<>>
    THEN acc
    ELSE FilterDescendantsOnly(G, Tail(ts), acc \cup descendants(G, Head(ts)))

\* as FilterConnected, the component of the first target only
FilterConnectedFirst(U, ts, acc) ==
    acc \cup node_connected_component(U, Head(ts))

\* the loop of lines 115-118
RECURSIVE FilterDescendants(_, _, _)
FilterDescendants(G, ts, acc) ==
    IF ts = <<>>
    THEN acc
    ELSE FilterDescendants(G, Tail(ts),
                           acc \cup descendants(G, Head(ts)) \cup {Head(ts)})

\* the loop of lines 122-124
RECURSIVE FilterConnected(_, _, _)
FilterConnected(U, ts, acc) ==
    IF ts = <<>>
    THEN acc
    ELSE FilterConnected(U, Tail(ts),
                         acc \cup node_connected_component(U, Head(ts)))

\* as FilterTrimmed, without the trimming to the descendants
FilterUntrimmed(G, ts, full) == G

\* lines 113-119: the copy, trimmed to the descendants unless full
FilterTrimmed(G, ts, full) ==
    IF full
    THEN G
    ELSE remove_nodes_from(G, G.nodes \ FilterDescendants(G, ts, {}))

\* as _filter, for the first target only
FilterFirstTargetOnly(G, ts, full) ==
    IF ts = <<>>
    THEN G
    ELSE LET new_graph == FilterTrimmed(G, <<ts[1]>>, full)
             connected == FilterConnected(to_undirected(new_graph), <<ts[1]>>, {})
         IN  remove_nodes_from(new_graph, new_graph.nodes \ connected)

\* as _filter, the empty graph for an empty list of targets
FilterEmptyOnNoTargets(G, ts, full) ==
    IF ts = <<>>
    THEN EmptyGraph
    ELSE LET new_graph == FilterTrimmed(G, ts, full)
             connected == FilterConnected(to_undirected(new_graph), ts, {})
         IN  remove_nodes_from(new_graph, new_graph.nodes \ connected)

\* as _filter, without the early return of lines 110-111
FilterNoEarlyReturn(G, ts, full) ==
    LET new_graph == FilterTrimmed(G, ts, full)
        connected == FilterConnected(to_undirected(new_graph), ts, {})
    IN  remove_nodes_from(new_graph, new_graph.nodes \ connected)

_filter(G, ts, full) ==
    IF ts = <<>>
    THEN G
    ELSE LET new_graph == FilterTrimmed(G, ts, full)
             connected == FilterConnected(to_undirected(new_graph), ts, {})
         IN  remove_nodes_from(new_graph, new_graph.nodes \ connected)

---------------------------------------------------------------------------
(* Collapsing foreach/matrix stages (dag.py 130-178). *)

\* as _is_foreach_matrix_stage, the .dvc exemption (lines 131-132) missing
IsForeachIgnoringSuffix(node, join_string) == Contains(node, join_string)

\* as _is_foreach_matrix_stage, ".dvc" looked for anywhere in the node
IsForeachSuffixAnywhere(node, join_string) ==
    IF Contains(node, DVC_SUFFIX)
    THEN FALSE
    ELSE Contains(node, join_string)

_is_foreach_matrix_stage(node, join_string) ==
    IF EndsWith(node, DVC_SUFFIX)
    THEN FALSE
    ELSE Contains(node, join_string)

\* as _collapse_foreach_matrix_get_nodes, a generated node left alone when
\* its template is a node already
CollapseNodesSkipExisting(G) ==
    LET generated == { n \in G.nodes : /\ _is_foreach_matrix_stage(n, JOIN)
                                       /\ SplitFirst(n, JOIN) \notin G.nodes }
    IN  << { SplitFirst(n, JOIN) : n \in generated }, generated >>

\* returns <<new_nodes, nodes_to_remove>>
_collapse_foreach_matrix_get_nodes(G) ==
    LET generated == { n \in G.nodes : _is_foreach_matrix_stage(n, JOIN) }
    IN  << { SplitFirst(n, JOIN) : n \in generated }, generated >>

\* the rewritten endpoint of lines 156-163
NewEndpoint(n) ==
    IF _is_foreach_matrix_stage(n, JOIN) THEN SplitFirst(n, JOIN) ELSE n

\* as _collapse_foreach_matrix_get_edges, an edge between two stages of one
\* template dropped instead of rewritten
CollapseEdgesDropLoops(G) ==
    LET replaced == { e \in G.edges : \/ _is_foreach_matrix_stage(e[1], JOIN)
                                      \/ _is_foreach_matrix_stage(e[2], JOIN) }
    IN  << { <<NewEndpoint(e[1]), NewEndpoint(e[2])>> : e \in replaced }
               \ { <<n, n>> : n \in { NewEndpoint(e[1]) : e \in replaced } },
           replaced >>

\* returns <<new_edges, edges_to_remove>>
_collapse_foreach_matrix_get_edges(G) ==
    LET replaced == { e \in G.edges : \/ _is_foreach_matrix_stage(e[1], JOIN)
                                      \/ _is_foreach_matrix_stage(e[2], JOIN) }
    IN  << { <<NewEndpoint(e[1]), NewEndpoint(e[2])>> : e \in replaced }, replaced >>

_collapse_foreach_matrix(G) ==
    LET ns == _collapse_foreach_matrix_get_nodes(G)
        es == _collapse_foreach_matrix_get_edges(G)
        g1 == remove_edges_from(G, es[2])
        g2 == add_nodes_from(g1, ns[1])
        g3 == add_edges_from(g2, es[1])
    IN  remove_nodes_from(g3, ns[2])

---------------------------------------------------------------------------
(* The graph objects of _filter and _collapse_foreach_matrix: what a call   *)
(* leaves in the object it was given, and whether it returns that object.  *)

\* as copy, the same object under a second name
CopyIsAlias(G) == [shared |-> TRUE, value |-> G]

\* G.copy() (lines 113, 173): a new object with the nodes and edges of G
copy(G) == [shared |-> FALSE, value |-> G]

\* as FilterCall, the graph collapsed before it is filtered, for the
\* templates of the targets
FilterCallOnCollapsed(G, ts, full) ==
    LET collapsed == _collapse_foreach_matrix(G)
        templates == [i \in 1..Len(ts) |-> NewEndpoint(ts[i])]
    IN  [input |-> G, result |-> _filter(collapsed, templates, full),
         same |-> (ts = <<>>)]

\* _filter as a call on a graph object: every change is made to new_graph
FilterCall(G, ts, full) ==
    IF ts = <<>>
    THEN [input |-> G, result |-> _filter(G, ts, full), same |-> TRUE]
    ELSE LET new_graph == copy(G)
             returned  == _filter(new_graph.value, ts, full)
         IN  [input  |-> IF new_graph.shared THEN returned ELSE G,
              result |-> returned,
              same   |-> new_graph.shared]

\* _collapse_foreach_matrix as a call on a graph object
CollapseCall(G) ==
    LET new_graph == copy(G)
        returned  == _collapse_foreach_matrix(new_graph.value)
    IN  [input  |-> IF new_graph.shared THEN returned ELSE G,
         result |-> returned,
         same   |-> new_graph.shared]

---------------------------------------------------------------------------
(* Rendering (dag.py 12-70). *)

\* G.subgraph(ns).copy()
subgraph(G, ns) ==
    [nodes |-> G.nodes \cap ns,
     edges |-> { e \in G.edges : e[1] \in ns /\ e[2] \in ns }]

\* dvc.repo.graph.get_pipelines: the weakly connected components, as graphs
get_pipelines(G) ==
    { subgraph(G, node_connected_component(to_undirected(G), n)) : n \in G.nodes }

\* the lists get_pipelines can return: the components in the order in which
\* the graph object happens to iterate its nodes
PipelineLists(G) ==
    LET ps == get_pipelines(G)
        n  == Cardinality(ps)
    IN  { f \in [1..n -> ps] : \A i, j \in 1..n : f[i] = f[j] => i = j }

\* ord(c) of the characters that occur in the identifiers of the model
Ord(c) ==
    CASE c = "\"" -> 34 [] c = "." -> 46 [] c = "/" -> 47 [] c = ":" -> 58
      [] c = "@" -> 64  [] c = "a" -> 97 [] c = "b" -> 98 [] c = "c" -> 99
      [] c = "d" -> 100 [] c = "e" -> 101 [] c = "g" -> 103 [] c = "h" -> 104
      [] c = "i" -> 105 [] c = "l" -> 108 [] c = "m" -> 109 [] c = "n" -> 110
      [] c = "o" -> 111 [] c = "p" -> 112 [] c = "r" -> 114 [] c = "t" -> 116
      [] c = "v" -> 118 [] c = "x" -> 120

\* Python's str <
RECURSIVE StrLess(_, _)
StrLess(a, b) ==
    IF b = <<>> THEN FALSE
    ELSE IF a = <<>> THEN TRUE
    ELSE IF Head(a) = Head(b) THEN StrLess(Tail(a), Tail(b))
    ELSE Ord(Head(a)) < Ord(Head(b))

\* Python's < on pairs of str
PairLess(p, q) == StrLess(p[1], q[1]) \/ (p[1] = q[1] /\ StrLess(p[2], q[2]))

\* sorted(...) of a set of str
RECURSIVE SortedStrs(_)
SortedStrs(S) ==
    IF S = {} THEN <<>>
    ELSE LET m == CHOOSE x \in S : \A y \in S : x = y \/ StrLess(x, y)
         IN  <<m>> \o SortedStrs(S \ {m})

\* sorted(...) of a set of pairs of str
RECURSIVE SortedPairs(_)
SortedPairs(S) ==
    IF S = {} THEN <<>>
    ELSE LET m == CHOOSE x \in S : \A y \in S : x = y \/ PairLess(x, y)
         IN  <<m>> \o SortedPairs(S \ {m})

\* _quote_label for a non-empty label
_quote_label(label) ==
    IF label[1] # "\"" /\ label[Len(label)] # "\""
    THEN <<"\"">> \o label \o <<"\"">>
    ELSE label

\* label[0] of the empty label raises IndexError
QuoteRaises(G) == \E n \in G.nodes : n = <<>>

\* nx.relabel_nodes(G, mapping), the mapping being the old name -> new name
\* table networkx makes of a callable: every node and edge endpoint renamed;
\* nodes that get the same name become one node
relabel_nodes(G, mapping) ==
    [nodes |-> { mapping[n] : n \in G.nodes },
     edges |-> { <<mapping[e[1]], mapping[e[2]]>> : e \in G.edges }]

\* line 42: the graph object after nx.relabel_nodes(graph, _quote_label, copy=False)
ShowDotRelabelled(G) == relabel_nodes(G, [n \in G.nodes |-> _quote_label(n)])

\* _show_dot: the text write_dot produces for graph.reverse(), as the nodes it
\* declares and the arrows it draws
_show_dot(G) ==
    LET drawn == reverse(ShowDotRelabelled(G))
    IN  [format |-> "dot", nodes |-> drawn.nodes, arrows |-> drawn.edges]

\* the lines of the Mermaid text
TextLine(s) == [kind |-> "text", text |-> s, id |-> 0, to |-> 0, label |-> <<>>]
\* \t{node_id}["{node}"]
DeclLine(k, node) == [kind |-> "decl", text |-> "", id |-> k, to |-> 0, label |-> node]
\* \t{node_ids[a]}-->{node_ids[b]}
EdgeLine(a, b) == [kind |-> "edge", text |-> "", id |-> a, to |-> b, label |-> <<>>]

\* the index of x in the sequence s
IndexOf(s, x) == CHOOSE i \in 1..Len(s) : s[i] = x

\* one pipeline with every edge line written from the edge's source to its target
MermaidPipelineForward(pipeline, total_nodes) ==
    LET nodes == SortedStrs(pipeline.nodes)
        node_id(n) == total_nodes + IndexOf(nodes, n)
        edges == SortedPairs(pipeline.edges)
    IN  [i \in 1..Len(nodes) |-> DeclLine(total_nodes + i, nodes[i])]
        \o [i \in 1..Len(edges) |-> EdgeLine(node_id(edges[i][1]), node_id(edges[i][2]))]

\* one pipeline with its edge lines before its node declaration lines
MermaidPipelineEdgesFirst(pipeline, total_nodes) ==
    LET nodes == SortedStrs(pipeline.nodes)
        node_id(n) == total_nodes + IndexOf(nodes, n)
        edges == SortedPairs({ <<e[2], e[1]>> : e \in pipeline.edges })
    IN  [i \in 1..Len(edges) |-> EdgeLine(node_id(edges[i][1]), node_id(edges[i][2]))]
        \o [i \in 1..Len(nodes) |-> DeclLine(total_nodes + i, nodes[i])]

\* lines 56-65 for one pipeline, total_nodes being the counter on entry
MermaidPipeline(pipeline, total_nodes) ==
    LET nodes == SortedStrs(pipeline.nodes)
        node_id(n) == total_nodes + IndexOf(nodes, n)
        edges == SortedPairs({ <<e[2], e[1]>> : e \in pipeline.edges })
    IN  [i \in 1..Len(nodes) |-> DeclLine(total_nodes + i, nodes[i])]
        \o [i \in 1..Len(edges) |-> EdgeLine(node_id(edges[i][1]), node_id(edges[i][2]))]

\* the loop with the counter starting again for every pipeline
RECURSIVE MermaidLinesRestart(_, _)
MermaidLinesRestart(pipelines, total_nodes) ==
    IF pipelines = <<>> THEN <<>>
    ELSE MermaidPipeline(Head(pipelines), 0)
         \o MermaidLinesRestart(Tail(pipelines), 0)

\* the loop of lines 55-65
RECURSIVE MermaidLines(_, _)
MermaidLines(pipelines, total_nodes) ==
    IF pipelines = <<>> THEN <<>>
    ELSE MermaidPipeline(Head(pipelines), total_nodes)
         \o MermaidLines(Tail(pipelines),
                         total_nodes + Cardinality(Head(pipelines).nodes))

\* the Mermaid text with the fenced block left open
ShowMermaidUnclosedFence(pipelines, markdown) ==
    LET text == <<TextLine("flowchart TD")>> \o MermaidLines(pipelines, 0)
    IN  [format |-> "mermaid",
         lines |-> IF markdown
                   THEN <<TextLine("FENCE mermaid")>> \o text
                   ELSE text]

\* _show_mermaid, pipelines being the list get_pipelines returned; the text
\* "FENCE" stands for the line of three backquotes that opens or closes a
\* fenced block
_show_mermaid(pipelines, markdown) ==
    LET text == <<TextLine("flowchart TD")>> \o MermaidLines(pipelines, 0)
    IN  [format |-> "mermaid",
         lines |-> IF markdown
                   THEN <<TextLine("FENCE mermaid")>> \o text \o <<TextLine("FENCE")>>
                   ELSE text]

\* _show_ascii: one drawing per pipeline, joined by newlines; a drawing is
\* what dvc.dagascii.draw is given
_show_ascii(pipelines) ==
    [format |-> "ascii",
     drawings |-> [i \in 1..Len(pipelines) |->
                      [nodes |-> pipelines[i].nodes, edges |-> pipelines[i].edges]]]

---------------------------------------------------------------------------
(* Target resolution and relabelling (dag.py 73-104). *)

\* a Stage object
Stage(addressing, outs) == [kind |-> "stage", addressing |-> addressing, outs |-> outs]

\* an output object of index.outs_graph; str(out) is its path
Out(path) == [kind |-> "out", path |-> path]

\* list.extend(s) of a str s appends its characters one by one
Chars(s) == [i \in 1..Len(s) |-> <<s[i]>>]

\* concatenation of a list of lists
RECURSIVE Flatten(_)
Flatten(ls) == IF ls = <<>> THEN <<>> ELSE Head(ls) \o Flatten(Tail(ls))

\* one pair contributing the first output of its stage only
PairTargetsFirstOut(r, pair) ==
    IF pair.path = <<>>
    THEN IF pair.stage.outs = <<>> THEN <<>> ELSE <<pair.stage.outs[1]>>
    ELSE Flatten([i \in 1..Len(r.index.outs_trie[pair.path]) |->
                     Chars(r.index.outs_trie[pair.path][i])])

\* lines 84-90 for one pair: what targets.extend receives
PairTargets(r, pair) ==
    IF pair.path = <<>>
    THEN pair.stage.outs
    ELSE Flatten([i \in 1..Len(r.index.outs_trie[pair.path]) |->
                     Chars(r.index.outs_trie[pair.path][i])])

\* as _collect_targets, the address of the first pair only in stage mode
CollectTargetsFirstPair(r, target, outs) ==
    IF target = <<>>
    THEN <<>>
    ELSE LET pairs == r.collect_granular[target]
         IN  IF ~outs
             THEN IF pairs = <<>> THEN <<>> ELSE <<pairs[1].stage.addressing>>
             ELSE Flatten([i \in 1..Len(pairs) |-> PairTargets(r, pairs[i])])

\* as _collect_targets, every stage of the index when no target is given
CollectTargetsDefaultAll(r, target, outs) ==
    IF target = <<>>
    THEN SortedStrs({ n.addressing : n \in r.index.graph.nodes })
    ELSE LET pairs == r.collect_granular[target]
         IN  IF ~outs
             THEN [i \in 1..Len(pairs) |-> pairs[i].stage.addressing]
             ELSE Flatten([i \in 1..Len(pairs) |-> PairTargets(r, pairs[i])])

\* _collect_targets; the target None and the empty target are both <<>>
_collect_targets(r, target, outs) ==
    IF target = <<>>
    THEN <<>>
    ELSE LET pairs == r.collect_granular[target]
         IN  IF ~outs
             THEN [i \in 1..Len(pairs) |-> pairs[i].stage.addressing]
             ELSE Flatten([i \in 1..Len(pairs) |-> PairTargets(r, pairs[i])])

\* the collaborators _collect_targets calls, in order
CollectCalls(r, target, outs) ==
    IF target = <<>>
    THEN <<>>
    ELSE LET pairs == r.collect_granular[target]
         IN  <<"collect_granular">>
             \o (IF ~outs
                 THEN <<>>
                 ELSE Flatten([i \in 1..Len(pairs) |->
                                     IF pairs[i].path = <<>>
                                     THEN <<>>
                                     ELSE <<"outs_trie.itervalues">>]))

\* _relabel of _transform
_relabel(node) == IF node.kind = "stage" THEN node.addressing ELSE node.path

\* as _transform, the stage graph read whatever outs is
TransformStageGraphOnly(index, outs) ==
    relabel_nodes(index.graph, [n \in index.graph.nodes |-> _relabel(n)])

\* _transform: a relabelled copy of the stage graph or of the outputs graph
_transform(index, outs) ==
    LET raw == IF outs THEN index.outs_graph ELSE index.graph
    IN  relabel_nodes(raw, [n \in raw.nodes |-> _relabel(n)])

\* _filter raises when a target is no node of the graph: nx.descendants
\* (line 117) raises NetworkXError, nx.node_connected_component (line 124)
\* raises KeyError
FilterRaises(G, ts) == \E i \in 1..Len(ts) : ts[i] \notin G.nodes

FilterError(full) == IF full THEN "KeyError" ELSE "NetworkXError"

---------------------------------------------------------------------------
(* The identifiers and graphs the model draws its inputs from. *)

train_a    == <<"t", "r", "a", "i", "n", "@", "a">>
train_b    == <<"t", "r", "a", "i", "n", "@", "b">>
train      == <<"t", "r", "a", "i", "n">>
prepare    == <<"p", "r", "e", "p", "a", "r", "e">>
eval_dvc_x == <<"e", "v", "a", "l", ".", "d", "v", "c", "@", "x">>
eval_x_dvc == <<"e", "v", "a", "l", "@", "x", ".", "d", "v", "c">>

\* stage addresses: generated stages, a template name, a plain stage and
\* two .dvc names containing the join token
StagePool == {train_a, train_b, train, prepare, eval_dvc_x, eval_x_dvc}

\* the addresses of the filtering runs
FilterPool == {train_a, train_b, prepare, eval_x_dvc}

\* the graphs over a pool of identifiers, within the bounds
GraphsOver(pool) ==
    UNION { { [nodes |-> ns, edges |-> es] :
                es \in { x \in SUBSET { e \in ns \X ns : e[1] # e[2] } :
                            Cardinality(x) <= MaxEdges } } :
            ns \in { x \in SUBSET pool : Cardinality(x) <= MaxNodes } }

\* the lists of at most MaxTargets elements of a set
ListsOver(S) == UNION { [1..n -> S] : n \in 0..MaxTargets }

\* the stage-level graph whose stages have the addresses of G
StageGraph(G) ==
    [nodes |-> { Stage(n, <<>>) : n \in G.nodes },
     edges |-> { <<Stage(e[1], <<>>), Stage(e[2], <<>>)>> : e \in G.edges }]

\* a repository whose stage-level graph is G and that has no outputs
StageRepo(G) ==
    [index |-> [graph |-> StageGraph(G), outs_graph |-> EmptyGraph,
                outs_trie |-> <<>>],
     collect_granular |-> <<>>]

NoArgs ==
    [target |-> <<>>, dot |-> FALSE, mermaid |-> FALSE, markdown |-> FALSE,
     collapse_foreach_matrix |-> FALSE, full |-> FALSE, outs |-> FALSE]

Running == [state |-> "running", code |-> 0, error |-> ""]
Returned(code) == [state |-> "returned", code |-> code, error |-> ""]
Raised(error) == [state |-> "raised", code |-> 0, error |-> error]

---------------------------------------------------------------------------
(* The steps of CmdDAG.run and _build (dag.py 181-214). *)

\* as MutuallyExclusive, either flag being enough
EitherFlag(a) == a.outs \/ a.collapse_foreach_matrix

\* line 194
MutuallyExclusive(a) == a.outs /\ a.collapse_foreach_matrix

\* lines 194-197: the check of the flags
CheckArgs ==
    /\ pc = "run"
    /\ IF MutuallyExclusive(args)
       THEN pc' = "done" /\ ret' = Raised("InvalidArgumentError")
       ELSE pc' = "collect" /\ ret' = ret
    /\ UNCHANGED <<args, repo, targets, graph, filtered_graph, same_object,
                    written, calls>>

\* line 182
CollectTargets ==
    /\ pc = "collect"
    /\ targets' = _collect_targets(repo, args.target, args.outs)
    /\ calls' = calls \o <<"_collect_targets">>
                      \o CollectCalls(repo, args.target, args.outs)
    /\ pc' = "transform"
    /\ UNCHANGED <<args, repo, graph, filtered_graph, same_object, written, ret>>

\* line 183
Transform ==
    /\ pc = "transform"
    /\ graph' = _transform(repo.index, args.outs)
    /\ calls' = Append(calls, "_transform")
    /\ pc' = "filter"
    /\ UNCHANGED <<args, repo, targets, filtered_graph, same_object, written, ret>>

\* line 184
Filter ==
    /\ pc = "filter"
    /\ calls' = Append(calls, "_filter")
    /\ IF FilterRaises(graph, targets)
       THEN /\ pc' = "done"
            /\ ret' = Raised(FilterError(args.full))
            /\ UNCHANGED <<graph, filtered_graph, same_object>>
       ELSE /\ pc' = "collapse"
            /\ LET call == FilterCall(graph, targets, args.full)
               IN  /\ filtered_graph' = call.result
                   /\ graph' = call.input
                   /\ same_object' = call.same
            /\ UNCHANGED ret
    /\ UNCHANGED <<args, repo, targets, written>>

\* lines 185-187
Collapse ==
    /\ pc = "collapse"
    /\ IF args.collapse_foreach_matrix
       THEN /\ LET call == CollapseCall(filtered_graph)
               IN  /\ filtered_graph' = call.result
                   /\ graph' = IF same_object THEN call.input ELSE graph
                   /\ same_object' = (same_object /\ call.same)
            /\ calls' = Append(calls, "_collapse_foreach_matrix")
       ELSE UNCHANGED <<graph, filtered_graph, same_object, calls>>
    /\ pc' = "show"
    /\ UNCHANGED <<args, repo, targets, written, ret>>

\* lines 206-207
ShowDot ==
    /\ pc = "show"
    /\ args.dot
    /\ calls' = Append(calls, "_show_dot")
    /\ pc' = "done"
    /\ IF QuoteRaises(filtered_graph)
       THEN /\ ret' = Raised("IndexError")
            /\ UNCHANGED <<graph, filtered_graph, written>>
       ELSE /\ filtered_graph' = ShowDotRelabelled(filtered_graph)
            /\ graph' = IF same_object THEN ShowDotRelabelled(filtered_graph) ELSE graph
            /\ written' = Append(written,
                   [pager |-> FALSE, text |-> _show_dot(filtered_graph)])
            /\ ret' = Returned(0)
    /\ UNCHANGED <<args, repo, targets, same_object>>

\* as ShowMermaid, tested before --dot
ShowMermaidBeforeDot ==
    /\ pc = "show"
    /\ args.mermaid \/ args.markdown
    /\ calls' = Append(calls, "_show_mermaid")
    /\ pc' = "done"
    /\ \E pipelines \in PipelineLists(filtered_graph) :
          written' = Append(written,
              [pager |-> FALSE, text |-> _show_mermaid(pipelines, args.markdown)])
    /\ ret' = Returned(0)
    /\ UNCHANGED <<args, repo, targets, graph, filtered_graph, same_object>>

\* lines 208-209
ShowMermaid ==
    /\ pc = "show"
    /\ ~args.dot
    /\ args.mermaid \/ args.markdown
    /\ calls' = Append(calls, "_show_mermaid")
    /\ pc' = "done"
    /\ \E pipelines \in PipelineLists(filtered_graph) :
          written' = Append(written,
              [pager |-> FALSE, text |-> _show_mermaid(pipelines, args.markdown)])
    /\ ret' = Returned(0)
    /\ UNCHANGED <<args, repo, targets, graph, filtered_graph, same_object>>

\* lines 210-212
ShowAscii ==
    /\ pc = "show"
    /\ ~args.dot
    /\ ~(args.mermaid \/ args.markdown)
    /\ calls' = calls \o <<"pager", "_show_ascii">>
    /\ pc' = "done"
    /\ \E pipelines \in PipelineLists(filtered_graph) :
          written' = Append(written,
              [pager |-> TRUE, text |-> _show_ascii(pipelines)])
    /\ ret' = Returned(0)
    /\ UNCHANGED <<args, repo, targets, graph, filtered_graph, same_object>>

---------------------------------------------------------------------------
(* _build from line 183 on, for every stage-level graph of the bounds and  *)
(* every list of targets that are nodes of it.                             *)

InitBuild ==
    /\ pc = "transform"
    /\ \E G \in GraphsOver(FilterPool) :
          /\ repo = StageRepo(G)
          /\ targets \in ListsOver(G.nodes)
    /\ \E full, collapse \in BOOLEAN :
          args = [NoArgs EXCEPT !.full = full, !.collapse_foreach_matrix = collapse]
    /\ graph = EmptyGraph
    /\ filtered_graph = EmptyGraph
    /\ same_object = FALSE
    /\ written = <<>>
    /\ calls = <<"_collect_targets">>
    /\ ret = Running

NextBuild == Transform \/ Filter \/ Collapse

SpecBuild == InitBuild /\ [][NextBuild]_vars

---------------------------------------------------------------------------
(* _build at line 185 when no target was given (filtered_graph is graph),  *)
(* for every graph of the bounds over the stage addresses.                 *)

InitCollapse ==
    /\ pc = "collapse"
    /\ \E G \in GraphsOver(StagePool) :
          /\ repo = StageRepo(G)
          /\ graph = G
          /\ filtered_graph = G
          /\ same_object = TRUE
    /\ targets = <<>>
    /\ \E collapse \in BOOLEAN :
          args = [NoArgs EXCEPT !.collapse_foreach_matrix = collapse]
    /\ written = <<>>
    /\ calls = <<"_collect_targets", "_transform", "_filter">>
    /\ ret = Running

NextCollapse == Collapse

SpecCollapse == InitCollapse /\ [][NextCollapse]_vars

---------------------------------------------------------------------------
(* CmdDAG.run on small repositories, with every combination of flags.      *)

m_a    == <<"m", "/", "a">>
m_b    == <<"m", "/", "b">>
m_dir  == <<"m">>
d_file == <<"d">>
c_file == <<"c">>
\* a directory no stage has an output under
n_dir  == <<"n">>

RunPool == {train_a, train_b, prepare}

\* the outputs of the stage of each address
OutsOf(addressing) ==
    IF addressing = train_a THEN <<m_a>>
    ELSE IF addressing = train_b THEN <<m_b>>
    ELSE <<d_file, c_file>>

RunStage(n) == Stage(n, OutsOf(n))

\* path == prefix, or path lies under the directory prefix
IsUnder(path, prefix) ==
    \/ path = prefix
    \/ /\ Len(path) > Len(prefix)
       /\ SubSeq(path, 1, Len(prefix) + 1) = prefix \o <<"/">>

\* the range of a list
Range(s) == { s[i] : i \in 1..Len(s) }

\* the output paths of the stages of G
OutPaths(G) == UNION { Range(OutsOf(n)) : n \in G.nodes }

\* the targets a user can name in the repository of G: a stage address, an
\* output file, the directory m, or the directory n, which resolves to no pair
RunTargets(G) ==
    G.nodes \cup { p \in {m_dir, d_file} : \E o \in OutPaths(G) : IsUnder(o, p) }
            \cup {n_dir}

\* repo.stage.collect_granular(target): for a stage address the stage with
\* no sub-path; for a path every stage with an output under it, with the path
CollectGranular(G, target) ==
    IF target \in G.nodes
    THEN << [stage |-> RunStage(target), path |-> <<>>] >>
    ELSE LET owners == SortedStrs({ n \in G.nodes :
                          \E o \in Range(OutsOf(n)) : IsUnder(o, target) })
         IN  [i \in 1..Len(owners) |-> [stage |-> RunStage(owners[i]), path |-> target]]

\* the repository whose stages are the nodes of G
RunRepo(G) ==
    [index |->
        [graph |-> [nodes |-> { RunStage(n) : n \in G.nodes },
                    edges |-> { <<RunStage(e[1]), RunStage(e[2])>> : e \in G.edges }],
         outs_graph |->
            [nodes |-> { Out(o) : o \in OutPaths(G) },
             edges |-> UNION { { <<Out(a), Out(b)>> : a \in Range(OutsOf(e[1])),
                                                      b \in Range(OutsOf(e[2])) } :
                               e \in G.edges }],
         outs_trie |-> [p \in {m_dir, d_file} |->
                           SortedStrs({ o \in OutPaths(G) : IsUnder(o, p) })]],
     collect_granular |-> [t \in RunTargets(G) |-> CollectGranular(G, t)]]

Init ==
    /\ pc = "run"
    /\ \E G \in GraphsOver(RunPool) :
          /\ repo = RunRepo(G)
          /\ \E t \in RunTargets(G) \cup {<<>>} :
             \E dot, mermaid, markdown, collapse, full, outs \in BOOLEAN :
                args = [target |-> t, dot |-> dot, mermaid |-> mermaid,
                        markdown |-> markdown, collapse_foreach_matrix |-> collapse,
                        full |-> full, outs |-> outs]
    /\ targets = <<>>
    /\ graph = EmptyGraph
    /\ filtered_graph = EmptyGraph
    /\ same_object = FALSE
    /\ written = <<>>
    /\ calls = <<>>
    /\ ret = Running

Next ==
    \/ CheckArgs
    \/ CollectTargets
    \/ Transform
    \/ Filter
    \/ Collapse
    \/ ShowDot
    \/ ShowMermaid
    \/ ShowAscii

Spec == Init /\ [][Next]_vars

---------------------------------------------------------------------------
(* _transform on indexes whose graphs have nodes of the same label.        *)

\* a node of a graph that is neither a stage nor an output; str(node) is path
Other(path) == [kind |-> "other", path |-> path]

\* stage objects, two of them with the same address
StageObjects == {Stage(train_a, <<m_a>>), Stage(train_a, <<m_b>>), Stage(prepare, <<d_file>>)}

\* nodes of an output-level graph, two of them with the same string
OutObjects == {Out(m_a), Other(m_a), Out(d_file)}

InitTransform ==
    /\ pc = "transform"
    /\ \E S \in GraphsOver(StageObjects), O \in GraphsOver(OutObjects) :
          repo = [index |-> [graph |-> S, outs_graph |-> O, outs_trie |-> <<>>],
                  collect_granular |-> <<>>]
    /\ \E outs \in BOOLEAN : args = [NoArgs EXCEPT !.outs = outs]
    /\ targets = <<>>
    /\ graph = EmptyGraph
    /\ filtered_graph = EmptyGraph
    /\ same_object = FALSE
    /\ written = <<>>
    /\ calls = <<"_collect_targets">>
    /\ ret = Running

NextTransform == Transform

SpecTransform == InitTransform /\ [][NextTransform]_vars

---------------------------------------------------------------------------
(* The renderers called one after another on one graph object.             *)

a_colon_b == <<"a", ":", "b">>
quoted_a  == <<"\"", "a", "\"">>
plain_a   == <<"a">>
half_quoted_b == <<"\"", "b">>

\* labels without quotes, wrapped in quotes, and with an opening quote only
LabelPool == {a_colon_b, quoted_a, plain_a, half_quoted_b}

\* the flags <<dot, mermaid, markdown>> that select each of the four texts:
\* DOT, Mermaid, Mermaid in a fenced block, ASCII
RenderChoices ==
    { <<TRUE, FALSE, FALSE>>, <<FALSE, TRUE, FALSE>>,
      <<FALSE, FALSE, TRUE>>, <<FALSE, FALSE, FALSE>> }

\* a caller renders the graph object again, with any encoder
RenderAgain ==
    /\ pc = "done"
    /\ ret.state = "returned"
    /\ Len(written) < MaxRenders
    /\ pc' = "show"
    /\ \E c \in RenderChoices :
          args' = [args EXCEPT !.dot = c[1], !.mermaid = c[2], !.markdown = c[3]]
    /\ ret' = Running
    /\ UNCHANGED <<repo, targets, graph, filtered_graph, same_object, written, calls>>

InitRender ==
    /\ pc = "show"
    /\ \E G \in GraphsOver(LabelPool) :
          /\ repo = StageRepo(G)
          /\ graph = G
          /\ filtered_graph = G
          /\ same_object = TRUE
    /\ \E c \in RenderChoices :
          args = [NoArgs EXCEPT !.dot = c[1], !.mermaid = c[2], !.markdown = c[3]]
    /\ targets = <<>>
    /\ written = <<>>
    /\ calls = <<"_collect_targets", "_transform", "_filter">>
    /\ ret = Running

NextRender == ShowDot \/ ShowMermaid \/ ShowAscii \/ RenderAgain

SpecRender == InitRender /\ [][NextRender]_vars

---------------------------------------------------------------------------
(* _build from line 183 on and then the DOT or the Mermaid renderer, for   *)
(* graphs whose node identifiers are the empty string, a string that       *)
(* starts with the join token and a string with double quotes.             *)

empty_label == <<>>
at_a        == <<"@", "a">>

TotalPool == {empty_label, at_a, quoted_a}

InitTotal ==
    /\ pc = "transform"
    /\ \E G \in GraphsOver(TotalPool) :
          /\ repo = StageRepo(G)
          /\ targets \in ListsOver(G.nodes)
    /\ \E full, collapse, dot \in BOOLEAN :
          args = [NoArgs EXCEPT !.full = full, !.collapse_foreach_matrix = collapse,
                                !.dot = dot, !.mermaid = ~dot]
    /\ graph = EmptyGraph
    /\ filtered_graph = EmptyGraph
    /\ same_object = FALSE
    /\ written = <<>>
    /\ calls = <<"_collect_targets">>
    /\ ret = Running

NextTotal == Transform \/ Filter \/ Collapse \/ ShowDot \/ ShowMermaid

SpecTotal == InitTotal /\ [][NextTotal]_vars

---------------------------------------------------------------------------
(* Properties.  Their vocabulary is defined here, apart from the operators *)
(* that model the code.                                                    *)

\* the nodes reached from S along edges u -> v, S included
RECURSIVE ForwardClosure(_, _)
ForwardClosure(G, S) ==
    LET step == S \cup { v \in G.nodes : \E u \in S : <<u, v>> \in G.edges }
    IN  IF step = S THEN S ELSE ForwardClosure(G, step)

\* upstream(t) = {t} plus everything t transitively depends on
Upstream(G, t) == ForwardClosure(G, {t})

\* the nodes joined to S by a chain of edges taken in either direction
RECURSIVE WeakClosure(_, _)
WeakClosure(G, S) ==
    LET step == S \cup { v \in G.nodes :
                           \E u \in S : <<u, v>> \in G.edges \/ <<v, u>> \in G.edges }
    IN  IF step = S THEN S ELSE WeakClosure(G, step)

\* the nodes weakly connected to some target
ConnectedTo(G, ts) == WeakClosure(G, Range(ts))

\* _filter has just returned
Filtered == pc = "collapse"

\* C1: in ancestors-only mode, for a non-empty list of targets that are nodes
\* of the graph, the nodes of the filtered graph are exactly the union of the
\* targets' upstream sets intersected with the nodes weakly connected to a
\* target.
C1_AncestorsOnly ==
    (Filtered /\ ~args.full /\ targets # <<>>) =>
        filtered_graph.nodes =
            (UNION { Upstream(graph, t) : t \in Range(targets) })
                \cap ConnectedTo(graph, targets)

\* the scenario of C1: X -> Y -> Z filtered for the target Y gives {Y, Z}
C1_Witness ==
    /\ Filtered /\ ~args.full
    /\ graph.nodes = {train_a, train_b, prepare}
    /\ graph.edges = {<<train_a, train_b>>, <<train_b, prepare>>}
    /\ targets = <<train_b>>
    /\ filtered_graph.nodes = {train_b, prepare}

\* C2: in full mode, for a non-empty list of targets that are nodes of the
\* graph, the nodes of the filtered graph are exactly the nodes of the weakly
\* connected components that contain a target.
C2_FullMode ==
    (Filtered /\ args.full /\ targets # <<>>) =>
        filtered_graph.nodes = ConnectedTo(graph, targets)

\* a node that no target reaches is kept and an unrelated component is removed
C2_Witness ==
    /\ Filtered /\ args.full /\ targets # <<>>
    /\ \E n \in filtered_graph.nodes :
          \A t \in Range(targets) : n \notin Upstream(graph, t)
    /\ graph.nodes \ filtered_graph.nodes # {}

\* C3: with an empty list of targets _filter returns the graph with the same
\* nodes and the same edges, in both modes.
C3_IdentityOnEmptyTargets ==
    (Filtered /\ targets = <<>>) =>
        /\ filtered_graph.nodes = graph.nodes
        /\ filtered_graph.edges = graph.edges

C3_Witness ==
    /\ Filtered /\ targets = <<>> /\ args.full
    /\ Cardinality(graph.edges) = MaxEdges
    /\ filtered_graph.edges = graph.edges

\* every edge endpoint is a node
NoDanglingEdge(G) == \A e \in G.edges : e[1] \in G.nodes /\ e[2] \in G.nodes

\* C4: starting from a well-formed structural graph, the relabelled graph and
\* the filtered (and collapsed) graph have no dangling edge, at every step of
\* the build.
C4_NoDanglingEdges ==
    NoDanglingEdge(repo.index.graph) =>
        NoDanglingEdge(graph) /\ NoDanglingEdge(filtered_graph)

\* a graph that was relabelled, trimmed by the filter and then collapsed
C4_Witness ==
    /\ pc = "show" /\ args.collapse_foreach_matrix /\ targets # <<>>
    /\ graph.nodes \ filtered_graph.nodes # {}
    /\ filtered_graph.edges # {}
    /\ filtered_graph.edges \cap graph.edges = {}

\* the template rewriting of the claims: n itself when n ends with .dvc or
\* holds no "@", else the part of n before its first "@"
TemplateOf(n) ==
    IF \/ (Len(n) >= 4 /\ n[Len(n) - 3] = "." /\ n[Len(n) - 2] = "d"
                       /\ n[Len(n) - 1] = "v" /\ n[Len(n)] = "c")
       \/ \A i \in 1..Len(n) : n[i] # "@"
    THEN n
    ELSE LET k == CHOOSE i \in 1..Len(n) :
                      n[i] = "@" /\ \A j \in 1..(i - 1) : n[j] # "@"
         IN  [i \in 1..(k - 1) |-> n[i]]

\* _collapse_foreach_matrix has just returned; no target was given, so the
\* graph it was handed is the relabelled graph, still held by graph
Collapsed == pc = "show" /\ args.collapse_foreach_matrix /\ targets = <<>>

\* C5: the nodes of the collapsed graph are exactly the images of the nodes
\* of the graph under the template rewriting.
C5_CollapsedNodes ==
    Collapsed => filtered_graph.nodes = { TemplateOf(n) : n \in graph.nodes }

\* two generated stages without edges become their template, the .dvc node
\* is kept
C5_Witness ==
    /\ Collapsed
    /\ graph.nodes = {train_a, train_b, eval_x_dvc}
    /\ graph.edges = {}
    /\ filtered_graph.nodes = {train, eval_x_dvc}

\* C6: the edges of the collapsed graph are exactly the images of the edges
\* of the graph under the template rewriting of both endpoints.
C6_CollapsedEdges ==
    Collapsed =>
        filtered_graph.edges =
            { <<TemplateOf(e[1]), TemplateOf(e[2])>> : e \in graph.edges }

\* (train@a, prepare) and (train@b, prepare) become the one edge
\* (train, prepare), and (train@a, train@b) becomes the self-loop (train, train)
C6_Witness ==
    /\ Collapsed
    /\ graph.edges = {<<train_a, prepare>>, <<train_b, prepare>>, <<train_a, train_b>>}
    /\ filtered_graph.edges = {<<train, prepare>>, <<train, train>>}

eval_dvc == <<"e", "v", "a", "l", ".", "d", "v", "c">>

\* C7 as stated: collapsing the nodes {train@a, train@b, eval.dvc@x} yields
\* the nodes {train, eval.dvc@x}.
C7_EvalDvcAtXExempt ==
    (Collapsed /\ graph.nodes = {train_a, train_b, eval_dvc_x}) =>
        filtered_graph.nodes = {train, eval_dvc_x}

\* C7 amended: collapsing the nodes {train@a, train@b, eval.dvc@x} yields the
\* nodes {train, eval.dvc}, since eval.dvc@x does not end with .dvc; a node
\* that does end with .dvc, such as eval@x.dvc, is kept under its identifier.
C7_EvalDvcAtXCollapsed ==
    /\ (Collapsed /\ graph.nodes = {train_a, train_b, eval_dvc_x}) =>
           filtered_graph.nodes = {train, eval_dvc}
    /\ (Collapsed /\ graph.nodes = {train_a, train_b, eval_x_dvc}) =>
           filtered_graph.nodes = {train, eval_x_dvc}

C7_Witness ==
    /\ Collapsed
    /\ graph.nodes = {train_a, train_b, eval_dvc_x}
    /\ eval_dvc \in filtered_graph.nodes

\* C8: with both --outs and --collapse-foreach-matrix the run raises
\* InvalidArgumentError before any other step has run and before anything is
\* written; with any other flags it never raises that error.
C8_MutualExclusionFirst ==
    /\ (args.outs /\ args.collapse_foreach_matrix /\ pc # "run") =>
           /\ pc = "done"
           /\ ret = Raised("InvalidArgumentError")
           /\ calls = <<>>
           /\ written = <<>>
           /\ targets = <<>> /\ graph = EmptyGraph /\ filtered_graph = EmptyGraph
    /\ (ret.state = "raised" /\ ret.error = "InvalidArgumentError") =>
           (args.outs /\ args.collapse_foreach_matrix)

C8_Witness ==
    /\ pc = "done"
    /\ ret = Raised("InvalidArgumentError")
    /\ args.target # <<>> /\ args.dot
    /\ repo.index.graph.edges # {}

\* the text is fenced as a markdown block
Fenced(text) ==
    /\ Len(text.lines) >= 2
    /\ text.lines[1] = TextLine("FENCE mermaid")
    /\ text.lines[Len(text.lines)] = TextLine("FENCE")

\* the node labels a written text shows
LabelsShown(text) ==
    IF text.format = "dot" THEN text.nodes
    ELSE IF text.format = "mermaid"
    THEN { text.lines[i].label : i \in { j \in 1..Len(text.lines) :
                                            text.lines[j].kind = "decl" } }
    ELSE UNION { text.drawings[i].nodes : i \in 1..Len(text.drawings) }

\* C9: a run that returns returns 0 and has written exactly one text, an
\* encoding of the built graph: DOT if --dot; else Mermaid if --mermaid or
\* --md, fenced exactly if --md; else ASCII, inside the pager.
C9_OutputSelection ==
    (ret.state = "returned") =>
        /\ ret.code = 0
        /\ Len(written) = 1
        /\ LabelsShown(written[1].text) = filtered_graph.nodes
        /\ IF args.dot
           THEN written[1].text.format = "dot" /\ ~written[1].pager
           ELSE IF args.mermaid \/ args.markdown
           THEN /\ written[1].text.format = "mermaid"
                /\ ~written[1].pager
                /\ Fenced(written[1].text) <=> args.markdown
           ELSE written[1].text.format = "ascii" /\ written[1].pager

\* --dot together with --md: DOT is written
C9_Witness ==
    /\ ret.state = "returned"
    /\ args.dot /\ args.markdown
    /\ Len(written) = 1
    /\ written[1].text.format = "dot"
    /\ written[1].text.arrows # {}

\* C10: a renderer leaves the graph it is given as it was.
C10_RenderersDoNotMutate ==
    [][pc = "show" => filtered_graph' = filtered_graph]_vars

\* the graph the index holds, under the stages' addresses
RelabelledIndex ==
    [nodes |-> { n.addressing : n \in repo.index.graph.nodes },
     edges |-> { <<e[1].addressing, e[2].addressing>> : e \in repo.index.graph.edges }]

\* C11: after _filter with a non-empty list of targets and after
\* _collapse_foreach_matrix, the graph handed over has the nodes and edges it
\* had before the call, and the graph returned is another object.
C11_InputsNotMutated ==
    (pc \in {"collapse", "show"}) =>
        /\ graph = RelabelledIndex
        /\ targets # <<>> => ~same_object
        /\ (pc = "show" /\ args.collapse_foreach_matrix) => ~same_object

\* the filter removed a node and the collapse renamed one
C11_Witness ==
    /\ pc = "show" /\ args.collapse_foreach_matrix /\ targets # <<>>
    /\ graph.nodes \ filtered_graph.nodes # {}
    /\ filtered_graph.nodes \ graph.nodes # {}
    /\ graph = RelabelledIndex

\* the text written last; the renderer that wrote it was given filtered_graph
\* as it is now, or, for DOT, as it was before the labels were quoted
LastText == written[Len(written)].text

\* the first text written is DOT: it was made of the graph of the index
FirstIsDot == Len(written) >= 1 /\ written[1].text.format = "dot"

\* label wrapped in double quotes
Wrap(label) == <<"\"">> \o label \o <<"\"">>

\* label begins and ends with a double quote
IsWrapped(label) ==
    Len(label) >= 1 /\ label[1] = "\"" /\ label[Len(label)] = "\""

\* C12: the label the DOT text shows for a node is the node's label wrapped
\* in double quotes, or the label itself if it already begins and ends with a
\* double quote; so every label of the DOT text is wrapped in double quotes.
C12_DotLabelsQuoted ==
    FirstIsDot =>
        /\ written[1].text.nodes =
               { IF IsWrapped(n) THEN n ELSE Wrap(n) : n \in RelabelledIndex.nodes }
        /\ \A l \in written[1].text.nodes : IsWrapped(l)

\* the label the DOT text shows the node n under: its label wrapped in
\* double quotes if the text has that label, else its label
ShownLabels(text, G) ==
    [n \in G.nodes |-> IF Wrap(n) \in text.nodes THEN Wrap(n) ELSE n]

\* the DOT text shows the nodes of G under the labels f and one arrow v -> u
\* for every edge (u, v) of G
DrawsReversed(text, G, f) ==
    /\ text.nodes = { f[n] : n \in G.nodes }
    /\ text.arrows = { <<f[e[2]], f[e[1]]>> : e \in G.edges }

\* C13 as stated: the DOT text has every node of the graph and exactly one
\* arrow v -> u for every edge (u, v), no arrow u -> v unless (v, u) is an edge
\* too, and as many nodes and arrows as the graph has nodes and edges.
C13_DotCountsEqual ==
    FirstIsDot =>
        LET f == ShownLabels(written[1].text, RelabelledIndex)
        IN  /\ DrawsReversed(written[1].text, RelabelledIndex, f)
            /\ \A u, v \in RelabelledIndex.nodes :
                   <<f[u], f[v]>> \in written[1].text.arrows
                       => <<v, u>> \in RelabelledIndex.edges
            /\ Cardinality(written[1].text.nodes) = Cardinality(RelabelledIndex.nodes)
            /\ Cardinality(written[1].text.arrows) = Cardinality(RelabelledIndex.edges)

\* C13, amended: the DOT text has every node of the graph, under its label or
\* its label wrapped in double quotes, and the arrow v -> u for every edge
\* (u, v) and no other arrow; when no two nodes are shown under the same label
\* there is no arrow u -> v unless (v, u) is an edge, and the text has as many
\* nodes and arrows as the graph has nodes and edges.
C13_DotReversedEdges ==
    FirstIsDot =>
        LET f == ShownLabels(written[1].text, RelabelledIndex)
        IN  /\ DrawsReversed(written[1].text, RelabelledIndex, f)
            /\ (\A m, n \in RelabelledIndex.nodes : f[m] = f[n] => m = n) =>
                   /\ \A u, v \in RelabelledIndex.nodes :
                          <<f[u], f[v]>> \in written[1].text.arrows
                              => <<v, u>> \in RelabelledIndex.edges
                   /\ Cardinality(written[1].text.nodes)
                          = Cardinality(RelabelledIndex.nodes)
                   /\ Cardinality(written[1].text.arrows)
                          = Cardinality(RelabelledIndex.edges)

\* a DOT text of a graph with an isolated node and an edge that has no edge
\* back, all nodes under labels of their own
C13_Witness ==
    /\ FirstIsDot
    /\ Cardinality(written[1].text.nodes) = 3
    /\ Cardinality(RelabelledIndex.nodes) = 3
    /\ \E e \in RelabelledIndex.edges :
           /\ e[1] # e[2]
           /\ <<e[2], e[1]>> \notin RelabelledIndex.edges
           /\ <<Wrap(e[2]), Wrap(e[1])>> \in written[1].text.arrows
    /\ \E n \in RelabelledIndex.nodes :
           \A e \in RelabelledIndex.edges : n # e[1] /\ n # e[2]

\* the text written last is Mermaid: it was made of filtered_graph as it is
LastIsMermaid == Len(written) >= 1 /\ LastText.format = "mermaid"

\* _show_mermaid has just returned the text written last, for the markdown
\* flag of args
WroteMermaid == pc = "done" /\ ret.state = "returned" /\ LastIsMermaid

IsDecl(line) == line.kind = "decl"
IsEdge(line) == line.kind = "edge"

\* the node declaration lines of the text, in the order of the text
DeclLines(text) == SelectSeq(text.lines, IsDecl)

\* a comes before b in the lexicographic order of strings
LexLess(a, b) ==
    \E k \in 1..Len(b) :
        /\ k <= Len(a) + 1
        /\ \A i \in 1..(k - 1) : a[i] = b[i]
        /\ k = Len(a) + 1 \/ Ord(a[k]) < Ord(b[k])

\* m and n are nodes of the same pipeline of the graph rendered
SamePipeline(m, n) == n \in WeakClosure(filtered_graph, {m})

\* C14: the Mermaid text of a graph of N nodes has exactly N node declaration
\* lines, one per node; their ids are node1 .. nodeN in the order of the text,
\* the counter going on from one pipeline to the next; the nodes of one
\* pipeline are declared in the lexicographic order of their labels.
C14_MermaidNodeIds ==
    WroteMermaid =>
        LET decls == DeclLines(LastText)
        IN  /\ Len(decls) = Cardinality(filtered_graph.nodes)
            /\ { decls[i].label : i \in 1..Len(decls) } = filtered_graph.nodes
            /\ \A i \in 1..Len(decls) : decls[i].id = i
            /\ \A i, j \in 1..Len(decls) :
                   (i < j /\ SamePipeline(decls[i].label, decls[j].label))
                       => LexLess(decls[i].label, decls[j].label)

\* three declarations, two of one pipeline, and a later pipeline whose label
\* comes before a label of an earlier pipeline
C14_Witness ==
    /\ LastIsMermaid
    /\ Len(DeclLines(LastText)) = 3
    /\ DeclLines(LastText)[3].id = 3
    /\ \E i, j \in 1..3 :
           /\ i < j
           /\ SamePipeline(DeclLines(LastText)[i].label, DeclLines(LastText)[j].label)
    /\ \E i, j \in 1..3 :
           /\ i < j
           /\ ~SamePipeline(DeclLines(LastText)[i].label, DeclLines(LastText)[j].label)
           /\ LexLess(DeclLines(LastText)[j].label, DeclLines(LastText)[i].label)

\* the edge lines of the text, in the order of the text
EdgeLines(text) == SelectSeq(text.lines, IsEdge)

\* the id the text declares for the node n
DeclaredId(text, n) ==
    LET decls == DeclLines(text)
    IN  decls[CHOOSE i \in 1..Len(decls) : decls[i].label = n].id

\* the label the text declares for the id k
DeclaredLabel(text, k) ==
    LET decls == DeclLines(text)
    IN  decls[CHOOSE i \in 1..Len(decls) : decls[i].id = k].label

\* the ids the text declares
DeclaredIds(text) == { DeclLines(text)[i].id : i \in 1..Len(DeclLines(text)) }

\* the pair of labels p comes before the pair q in the lexicographic order
PairLexLess(p, q) == LexLess(p[1], q[1]) \/ (p[1] = q[1] /\ LexLess(p[2], q[2]))

\* C15: the Mermaid text has exactly one edge line per edge of the graph; the
\* edge (u, v) is written id(v)-->id(u) with the ids declared for v and u;
\* every edge line refers to declared ids only; the edge lines of one pipeline
\* are in the lexicographic order of the label pairs (v, u).
C15_MermaidEdges ==
    WroteMermaid =>
        LET edges == EdgeLines(LastText)
            from(i) == DeclaredLabel(LastText, edges[i].id)
            to(i)   == DeclaredLabel(LastText, edges[i].to)
        IN  /\ Len(edges) = Cardinality(filtered_graph.edges)
            /\ \A i \in 1..Len(edges) :
                   /\ edges[i].id \in DeclaredIds(LastText)
                   /\ edges[i].to \in DeclaredIds(LastText)
            /\ { <<edges[i].id, edges[i].to>> : i \in 1..Len(edges) }
                   = { <<DeclaredId(LastText, e[2]), DeclaredId(LastText, e[1])>> :
                         e \in filtered_graph.edges }
            /\ \A i, j \in 1..Len(edges) :
                   (i < j /\ SamePipeline(from(i), from(j)))
                       => PairLexLess(<<from(i), to(i)>>, <<from(j), to(j)>>)

\* two edge lines of one pipeline, for edges that have no edge back
C15_Witness ==
    /\ LastIsMermaid
    /\ Len(EdgeLines(LastText)) >= 2
    /\ \A e \in filtered_graph.edges : <<e[2], e[1]>> \notin filtered_graph.edges
    /\ \E e \in filtered_graph.edges :
           \E i \in 1..Len(EdgeLines(LastText)) :
               /\ EdgeLines(LastText)[i].id = DeclaredId(LastText, e[2])
               /\ EdgeLines(LastText)[i].to = DeclaredId(LastText, e[1])

\* _show_mermaid has just returned a text without a fence
LastIsUnfencedMermaid == WroteMermaid /\ ~Fenced(LastText)

\* C16 as stated: the unfenced Mermaid text is the line flowchart TD, then the
\* node declaration lines, then the edge lines; no edge line comes before a
\* node declaration line, for any number of pipelines.
C16_DeclarationsBeforeEdges ==
    LastIsUnfencedMermaid =>
        LET lines == LastText.lines
        IN  /\ lines[1] = TextLine("flowchart TD")
            /\ \A i \in 2..Len(lines) : IsDecl(lines[i]) \/ IsEdge(lines[i])
            /\ \A i, j \in 2..Len(lines) :
                   (i < j /\ IsEdge(lines[i])) => ~IsDecl(lines[j])

\* C16, amended: the unfenced Mermaid text is the line flowchart TD, then
\* node declaration lines and edge lines; every edge line comes after the
\* declarations of the two ids it refers to, and no edge line comes before a
\* node declaration line of its own pipeline.
C16_DeclarationsBeforeEdgesPerPipeline ==
    LastIsUnfencedMermaid =>
        LET lines == LastText.lines
        IN  /\ lines[1] = TextLine("flowchart TD")
            /\ \A i \in 2..Len(lines) : IsDecl(lines[i]) \/ IsEdge(lines[i])
            /\ \A i \in 2..Len(lines) :
                   IsEdge(lines[i]) =>
                       /\ \E j \in 2..(i - 1) : IsDecl(lines[j]) /\ lines[j].id = lines[i].id
                       /\ \E j \in 2..(i - 1) : IsDecl(lines[j]) /\ lines[j].id = lines[i].to
            /\ \A i, j \in 2..Len(lines) :
                   (i < j /\ IsEdge(lines[i]) /\ IsDecl(lines[j]))
                       => ~SamePipeline(DeclaredLabel(LastText, lines[i].id), lines[j].label)

\* an edge line of one pipeline followed by the declaration of another
C16_Witness ==
    /\ LastIsUnfencedMermaid
    /\ \E i, j \in 2..Len(LastText.lines) :
           /\ i < j
           /\ IsEdge(LastText.lines[i])
           /\ IsDecl(LastText.lines[j])

\* line is one of the two lines of a fence
IsFence(line) == line = TextLine("FENCE mermaid") \/ line = TextLine("FENCE")

\* the smallest id the text declares for a node of the pipeline p
FirstDeclared(text, p) ==
    CHOOSE k \in { DeclaredId(text, n) : n \in p.nodes } :
        \A n \in p.nodes : k <= DeclaredId(text, n)

\* the pipelines of the set S in the order the text declares them
RECURSIVE InTextOrder(_, _)
InTextOrder(text, S) ==
    IF S = {} THEN <<>>
    ELSE LET first == CHOOSE p \in S :
                          \A q \in S : FirstDeclared(text, p) <= FirstDeclared(text, q)
         IN  <<first>> \o InTextOrder(text, S \ {first})

\* C17: for a graph and a pipeline order, the Mermaid text with markdown is
\* the fence line that opens a mermaid block, then exactly the text without
\* markdown, then the closing fence line; the text without markdown begins
\* with flowchart TD and has no fence line.
C17_MarkdownWrapsUnfenced ==
    WroteMermaid =>
        IF args.markdown
        THEN LET ps == InTextOrder(LastText, get_pipelines(filtered_graph))
             IN  LastText.lines = <<TextLine("FENCE mermaid")>>
                                      \o _show_mermaid(ps, FALSE).lines
                                      \o <<TextLine("FENCE")>>
        ELSE /\ LastText.lines[1] = TextLine("flowchart TD")
             /\ \A i \in 1..Len(LastText.lines) : ~IsFence(LastText.lines[i])

\* a fenced text of a graph with an edge, written after the unfenced text of
\* the same graph
C17_Witness ==
    /\ Len(written) = 2
    /\ written[1].text.format = "mermaid"
    /\ WroteMermaid
    /\ args.markdown
    /\ ~Fenced(written[1].text)
    /\ filtered_graph.edges # {}
    /\ LastText.lines = <<TextLine("FENCE mermaid")>> \o written[1].text.lines
                            \o <<TextLine("FENCE")>>

\* _collect_targets has just returned
Collected == pc = "transform"

\* the (stage, sub-path) pairs the stage collaborator resolved the target to
ResolvedPairs == repo.collect_granular[args.target]

\* the identifiers the resolver may return in outs mode: the addresses of the
\* resolved stages and the path strings of the outputs the index knows
KnownIdentifiers ==
    { ResolvedPairs[i].stage.addressing : i \in 1..Len(ResolvedPairs) }
        \cup { o.path : o \in repo.index.outs_graph.nodes }

\* C18: in outs mode, a pair with a sub-path contributes exactly the path
\* strings the prefix index returns for the sub-path, each as one whole
\* identifier; the resolver returns no identifier that is neither the address
\* of a resolved stage nor the path string of a known output.
C18_SubPathContributesPaths ==
    (Collected /\ args.outs /\ args.target # <<>>
         /\ \A i \in 1..Len(ResolvedPairs) : ResolvedPairs[i].path # <<>>) =>
        /\ targets = Flatten([i \in 1..Len(ResolvedPairs) |->
                                 repo.index.outs_trie[ResolvedPairs[i].path]])
        /\ Range(targets) \subseteq KnownIdentifiers

\* C19: in outs mode, a pair without a sub-path contributes the path string
\* of every output of its stage, in the order of the stage's outputs, and the
\* prefix index is not queried for that pair.
C19_NoSubPathContributesStageOuts ==
    (Collected /\ args.outs /\ args.target # <<>>
         /\ \A i \in 1..Len(ResolvedPairs) : ResolvedPairs[i].path = <<>>) =>
        /\ targets = Flatten([i \in 1..Len(ResolvedPairs) |->
                                 ResolvedPairs[i].stage.outs])
        /\ \A i \in 1..Len(calls) : calls[i] # "outs_trie.itervalues"

\* the stage with two outputs resolved in outs mode by its address
C19_Witness ==
    /\ Collected /\ args.outs
    /\ args.target = prepare
    /\ Len(ResolvedPairs) = 1
    /\ ResolvedPairs[1].path = <<>>
    /\ targets = <<d_file, c_file>>

\* C20: the list the resolver returns contains no identifier twice.
C20_ResolvedTargetsUnique ==
    Collected => \A i, j \in 1..Len(targets) : targets[i] = targets[j] => i = j

\* C21: in stage mode, with a target, the resolver returns one address per
\* pair of the stage collaborator, in the collaborator's order, each the
\* address of the stage of the pair; the sub-path of a pair plays no part and
\* the prefix index is not queried.
C21_StageModeAddresses ==
    (Collected /\ ~args.outs /\ args.target # <<>>) =>
        /\ Len(targets) = Len(ResolvedPairs)
        /\ \A i \in 1..Len(targets) : targets[i] = ResolvedPairs[i].stage.addressing
        /\ \A i \in 1..Len(calls) : calls[i] # "outs_trie.itervalues"

\* a directory resolved in stage mode to two stages, each with the sub-path
C21_Witness ==
    /\ Collected /\ ~args.outs
    /\ args.target = m_dir
    /\ Len(ResolvedPairs) = 2
    /\ ResolvedPairs[1].path = m_dir
    /\ targets = <<train_a, train_b>>

\* the output-level graph of the index under the path strings of its nodes
RelabelledOuts ==
    [nodes |-> { n.path : n \in repo.index.outs_graph.nodes },
     edges |-> { <<e[1].path, e[2].path>> : e \in repo.index.outs_graph.edges }]

\* the whole relabelled graph of the mode asked for
WholeRelabelled == IF args.outs THEN RelabelledOuts ELSE RelabelledIndex

\* the image of G under the template rewriting
CollapsedImage(G) ==
    [nodes |-> { TemplateOf(n) : n \in G.nodes },
     edges |-> { <<TemplateOf(e[1]), TemplateOf(e[2])>> : e \in G.edges }]

\* the whole relabelled graph, collapsed if the collapse flag is set
WholeGraphShown ==
    IF args.collapse_foreach_matrix
    THEN CollapsedImage(WholeRelabelled)
    ELSE WholeRelabelled

\* C22: without a target the resolver returns the empty list and calls
\* neither the stage collaborator nor the prefix index, whatever outs is; the
\* graph built is then the whole relabelled graph, collapsed if asked for,
\* whatever full is.
C22_NoTargetWholeGraph ==
    args.target = <<>> =>
        /\ targets = <<>>
        /\ \A i \in 1..Len(calls) :
               calls[i] # "collect_granular" /\ calls[i] # "outs_trie.itervalues"
        /\ pc = "show" => filtered_graph = WholeGraphShown

\* no target, ancestors-only mode, collapse asked for: the graph built has
\* the template in place of the generated stages and every other stage
C22_Witness ==
    /\ pc = "show"
    /\ args.target = <<>> /\ ~args.full /\ args.collapse_foreach_matrix
    /\ calls = <<"_collect_targets", "_transform", "_filter", "_collapse_foreach_matrix">>
    /\ RelabelledIndex.nodes = {train_a, train_b, prepare}
    /\ filtered_graph.nodes = {train, prepare}
    /\ filtered_graph.edges # {}

\* _transform has just returned
Transformed == pc = "filter"

\* the graph of the index _transform is to read
GraphRead == IF args.outs THEN repo.index.outs_graph ELSE repo.index.graph

\* the label of a node: the address of a stage, the string of anything else
Label(node) == IF node.kind = "stage" THEN node.addressing ELSE node.path

\* C23: _transform reads the output-level graph when outs is true and the
\* stage-level graph otherwise; the nodes of the graph it returns are the
\* labels of the nodes read, its edges the pairs (label(u), label(v)) of the
\* edges (u, v) read, in that direction; two nodes of the same label become
\* one node that has the edges of both.
C23_TransformRelabels ==
    Transformed =>
        /\ graph.nodes = { Label(n) : n \in GraphRead.nodes }
        /\ graph.edges = { <<Label(e[1]), Label(e[2])>> : e \in GraphRead.edges }
        /\ \A m, n \in GraphRead.nodes :
               Label(m) = Label(n) =>
                   \A e \in GraphRead.edges :
                       /\ e[1] \in {m, n} => <<Label(m), Label(e[2])>> \in graph.edges
                       /\ e[2] \in {m, n} => <<Label(e[1]), Label(m)>> \in graph.edges

\* two stages of the same address, one with an edge to a third stage and one
\* with an edge from it, become one node with both edges
C23_Witness ==
    /\ Transformed /\ ~args.outs
    /\ Cardinality(GraphRead.nodes) = 3
    /\ graph.nodes = {train_a, prepare}
    /\ Cardinality(GraphRead.edges) = 2
    /\ graph.edges = {<<train_a, prepare>>, <<prepare, train_a>>}

\* C24: for every graph whose edge endpoints are nodes, the identifiers being
\* any strings (the empty string, a string that starts with the join token, a
\* string with double quotes), _filter with targets that are nodes,
\* _collapse_foreach_matrix, _show_dot and _show_mermaid complete without
\* raising, each on the result of the step before it.
C24_NoStepRaises == ret.state # "raised"

\* the subgraph of G on the nodes S
Induced(G, S) ==
    [nodes |-> S, edges |-> { e \in G.edges : e[1] \in S /\ e[2] \in S }]

\* the nodes of G the filter keeps for the targets ts
KeptNodes(G, ts, full) ==
    IF ts = <<>> THEN G.nodes
    ELSE IF full THEN ConnectedTo(G, ts)
    ELSE UNION { Upstream(G, t) : t \in Range(ts) }

\* _build is about to return filtered_graph
Built == pc = "show"

\* C25: _build resolves the targets and relabels the graph, then filters,
\* and only then, when the collapse flag is set, collapses: the graph it
\* returns is the collapse of the filtered relabelled graph, never the filter
\* of the collapsed graph; so for the target train@a in ancestors-only mode
\* the node train has the dependencies of train@a only.
C25_FilterThenCollapse ==
    Built =>
        LET filtered == Induced(RelabelledIndex,
                                KeptNodes(RelabelledIndex, targets, args.full))
        IN  /\ calls = <<"_collect_targets", "_transform", "_filter">>
                         \o (IF args.collapse_foreach_matrix
                             THEN <<"_collapse_foreach_matrix">> ELSE <<>>)
            /\ filtered_graph = IF args.collapse_foreach_matrix
                                THEN CollapsedImage(filtered)
                                ELSE filtered

\* train@b depends on prepare, train@a does not: for the target train@a the
\* collapsed graph has the node train and not prepare
C25_Witness ==
    /\ Built /\ ~args.full /\ args.collapse_foreach_matrix
    /\ targets = <<train_a>>
    /\ <<train_b, prepare>> \in RelabelledIndex.edges
    /\ train \in filtered_graph.nodes
    /\ prepare \notin filtered_graph.nodes

\* the union of the upstream sets of the targets
UpstreamOfTargets == UNION { Upstream(RelabelledIndex, t) : t \in Range(targets) }

\* C26: in ancestors-only mode, for a non-empty list of targets that are
\* nodes of the graph, the connectivity trimming removes no node: every node
\* left by the reachability trimming is weakly connected to a target, in the
\* trimmed graph and in the graph itself, so the nodes of the filtered graph
\* are exactly the union of the upstream sets of the targets.
C26_ConnectivityTrimsNothing ==
    (Filtered /\ ~args.full /\ targets # <<>>) =>
        /\ filtered_graph.nodes = FilterTrimmed(RelabelledIndex, targets, FALSE).nodes
        /\ filtered_graph.nodes = UpstreamOfTargets
        /\ UpstreamOfTargets
               = WeakClosure(Induced(RelabelledIndex, UpstreamOfTargets), Range(targets))
        /\ UpstreamOfTargets
               = UpstreamOfTargets \cap ConnectedTo(RelabelledIndex, targets)

\* a target with a dependency, and a node that depends on the target and is
\* trimmed by reachability though it is weakly connected to the target
C26_Witness ==
    /\ Filtered /\ ~args.full
    /\ Len(targets) >= 1
    /\ Cardinality(UpstreamOfTargets) = 2
    /\ ConnectedTo(RelabelledIndex, targets) \ UpstreamOfTargets # {}
    /\ filtered_graph.nodes = UpstreamOfTargets

\* the result of _filter in the other mode, for the same graph and targets
OtherMode == _filter(RelabelledIndex, targets, ~args.full)

\* the results of the two modes for the graph and targets of the state
AncestorsResult == IF args.full THEN OtherMode ELSE filtered_graph
FullResult      == IF args.full THEN filtered_graph ELSE OtherMode

\* C27: for a non-empty list of targets that are nodes of the graph, the
\* result of the ancestors-only mode is a subgraph of the result of the full
\* mode, nodes and edges; both results have every target; in both modes
\* the edges of the result are exactly the edges of the graph between two
\* retained nodes.
C27_AncestorsWithinFull ==
    (Filtered /\ targets # <<>>) =>
        /\ AncestorsResult.nodes \subseteq FullResult.nodes
        /\ AncestorsResult.edges \subseteq FullResult.edges
        /\ Range(targets) \subseteq AncestorsResult.nodes
        /\ Range(targets) \subseteq FullResult.nodes
        /\ AncestorsResult = Induced(RelabelledIndex, AncestorsResult.nodes)
        /\ FullResult = Induced(RelabelledIndex, FullResult.nodes)

\* the ancestors-only result has an edge and is a proper subgraph of the
\* full result, in nodes and in edges
C27_Witness ==
    /\ Filtered /\ targets # <<>> /\ args.full
    /\ AncestorsResult.nodes # FullResult.nodes
    /\ AncestorsResult.edges # FullResult.edges
    /\ AncestorsResult.edges # {}

\* the lists that have the targets of the state in another order or with
\* repetitions
Rearranged == { ts \in ListsOver(Range(targets)) : Range(ts) = Range(targets) }

\* the nodes of the filtered graph are those for the first k targets
\* together with those for the other targets
SplitsAt(k) ==
    filtered_graph.nodes =
        _filter(RelabelledIndex, SubSeq(targets, 1, k), args.full).nodes
            \cup _filter(RelabelledIndex, SubSeq(targets, k + 1, Len(targets)),
                         args.full).nodes

\* filtering the filtered graph again changes nothing, and the targets in
\* another order or with repetitions give the same graph
IdempotentAndOrderFree ==
    /\ _filter(filtered_graph, targets, args.full) = filtered_graph
    /\ \A ts \in Rearranged : _filter(RelabelledIndex, ts, args.full) = filtered_graph

\* C28 as stated: _filter is idempotent and independent of the order and the
\* repetition of the targets, and for every list of targets T1 followed by T2
\* the node set is the union of the node sets for T1 and for T2.
C28_FilterUnionOfAnySplit ==
    Filtered =>
        /\ IdempotentAndOrderFree
        /\ \A k \in 0..Len(targets) : SplitsAt(k)

\* C28, amended: _filter is idempotent and independent of the order and the
\* repetition of the targets, and for T1 followed by T2, both non-empty, the
\* node set is the union of the node sets for T1 and for T2; the node set
\* for an empty list is the whole graph.
C28_FilterUnionOfNonEmptySplit ==
    Filtered =>
        /\ IdempotentAndOrderFree
        /\ \A k \in 1..(Len(targets) - 1) : SplitsAt(k)
        /\ _filter(RelabelledIndex, <<>>, args.full).nodes = RelabelledIndex.nodes

\* two targets with different node sets, whose union is not the whole graph
C28_Witness ==
    /\ Filtered
    /\ Len(targets) = 2
    /\ _filter(RelabelledIndex, <<targets[1]>>, args.full).nodes
           # _filter(RelabelledIndex, <<targets[2]>>, args.full).nodes
    /\ filtered_graph.nodes # RelabelledIndex.nodes
    /\ filtered_graph.nodes # _filter(RelabelledIndex, <<targets[1]>>, args.full).nodes
    /\ filtered_graph.nodes # _filter(RelabelledIndex, <<targets[2]>>, args.full).nodes

\* n is a generated node: it contains the join token and does not end with
\* .dvc, so the template rewriting changes it
IsGenerated(n) == TemplateOf(n) # n

\* C29: the collapsed graph has no generated node, so collapsing it again
\* gives a graph of the same nodes and edges; when the template of a
\* generated node is a node of the graph already, the two become one node
\* that has the edges of the existing node and the rewritten edges of the
\* generated one.
C29_CollapseIdempotent ==
    Collapsed =>
        /\ \A n \in filtered_graph.nodes : ~IsGenerated(n)
        /\ _collapse_foreach_matrix(filtered_graph) = filtered_graph
        /\ \A n \in graph.nodes :
               (IsGenerated(n) /\ TemplateOf(n) \in graph.nodes) =>
                   /\ TemplateOf(n) \in filtered_graph.nodes
                   /\ n \notin filtered_graph.nodes
                   /\ \A e \in graph.edges :
                          /\ e[1] \in {n, TemplateOf(n)}
                                 => <<TemplateOf(n), TemplateOf(e[2])>> \in filtered_graph.edges
                          /\ e[2] \in {n, TemplateOf(n)}
                                 => <<TemplateOf(e[1]), TemplateOf(n)>> \in filtered_graph.edges

\* train next to train@a, train with an edge to prepare and train@a with an
\* edge from it: the one node train has both edges
C29_Witness ==
    /\ Collapsed
    /\ graph.nodes = {train, train_a, prepare}
    /\ graph.edges = {<<train, prepare>>, <<prepare, train_a>>}
    /\ filtered_graph.nodes = {train, prepare}
    /\ filtered_graph.edges = {<<train, prepare>>, <<prepare, train>>}

\* C30: when a target is given and the resolver returns the empty list, the
\* graph built is the whole relabelled graph, collapsed if asked for, and not
\* an empty graph, in both modes of the filter.
C30_UnresolvedTargetWholeGraph ==
    (Built /\ args.target # <<>> /\ targets = <<>>) =>
        filtered_graph = WholeGraphShown

\* the directory n resolves to no pair: in ancestors-only mode the graph built
\* has every stage and every edge of the index
C30_Witness ==
    /\ Built /\ ~args.full /\ ~args.outs /\ ~args.collapse_foreach_matrix
    /\ args.target = n_dir
    /\ ResolvedPairs = <<>>
    /\ targets = <<>>
    /\ Cardinality(filtered_graph.nodes) = 3
    /\ filtered_graph.edges # {}
    /\ filtered_graph = RelabelledIndex

===========================================================================
